---- MODULE Spec2Model ----
(***************************************************************************)
(* Model of tools_webrtc/configure_pipewire.py: the launcher that sets the *)
(* PipeWire environment, starts pipewire and wireplumber, runs the         *)
(* caller's command and terminates the two helpers.                        *)
(*                                                                         *)
(* Strings are sequences of tokens: a token is either the separator "/",   *)
(* the list separator ":" or a piece of text holding neither.              *)
(***************************************************************************)
EXTENDS Integers, Sequences, FiniteSets, TLC

VARIABLES
    scriptPath,    \* os.path.realpath(__file__)
    argv,          \* sys.argv[1:]
    isdir,         \* the file system: os.path.isdir(pipewire_dir)
    avail,         \* the file system: the commands that exec can start
    environ,       \* os.environ, a dict: variable name -> string
    environ0,      \* the environment the launcher inherited
    calls,         \* completed or faulted calls of _configure_pipewire_paths
    pc,            \* the launcher's position in main()
    events,        \* what the launcher has done so far, in order
    proc,          \* each child process: "notstarted", "running", "exited"
    snapshot,      \* the environment each started child was given
    sigterm,       \* SIGTERMs delivered to each child
    returncode,    \* <<>>, or <<rc>> once the foreground command has ended
    return_value,  \* <<>>, or <<rc>>: main()'s local return_value
    result,        \* <<>>, or <<n>>: the value main() returned
    fault,         \* "none", or the exception that left main() unhandled
    faultAt,       \* the position the exception was raised at
    exitStatus     \* <<>>, or <<n>>: the launcher's own exit status

vars == <<scriptPath, argv, isdir, avail, environ, environ0, calls, pc, events,
          proc, snapshot, sigterm, returncode, return_value, result, fault,
          faultAt, exitStatus>>

\* ------------------------------------------------------------------ bounds

MaxCalls == 3

\* ----------------------------------------------------------------- strings

SEP == "/"

\* posixpath.dirname
Dirname(p) ==
    LET slashes == {j \in 1..Len(p) : p[j] = SEP}
        i == IF slashes = {} THEN 0
             ELSE CHOOSE j \in slashes : \A k \in slashes : k <= j
        head == SubSeq(p, 1, i)
        keep == {j \in 1..Len(head) : head[j] # SEP}
        last == IF keep = {} THEN 0
                ELSE CHOOSE j \in keep : \A k \in keep : k <= j
    IN  IF head # <<>> /\ keep # {} THEN SubSeq(head, 1, last) ELSE head

\* posixpath.join(a, b)
Join(a, b) ==
    IF b # <<>> /\ Head(b) = SEP THEN b
    ELSE IF a = <<>> \/ a[Len(a)] = SEP THEN a \o b
    ELSE a \o <<SEP>> \o b

\* _get_pipewire_dir, from the real path of the script
GetPipewireDir(script) ==
    LET script_dir == Dirname(script)
        src_dir == Dirname(script_dir)
    IN  Join(Join(Join(src_dir, <<"third_party">>), <<"pipewire">>),
             <<"linux-amd64">>)

pipewire_dir == GetPipewireDir(scriptPath)

\* ------------------------------------------------------------- environment

\* d[k] = v on a dict
SetItem(d, k, v) ==
    [x \in DOMAIN d \cup {k} |-> IF x = k THEN v ELSE d[x]]

NoFault == "none"

\* a variant whose PATH assignment replaces the old value
ConfigurePipewirePathsReplace(e, path) ==
    LET library_dir == Join(path, <<"lib64">>)
        e1 == SetItem(e, "LD_LIBRARY_PATH", library_dir)
        e2 == SetItem(e1, "PIPEWIRE_CONFIG_PREFIX",
                      Join(Join(path, <<"share">>), <<"pipewire">>))
        e3 == SetItem(e2, "PIPEWIRE_MODULE_DIR",
                      Join(library_dir, <<"pipewire-0.3">>))
        e4 == SetItem(e3, "SPA_PLUGIN_DIR", Join(library_dir, <<"spa-0.2">>))
        e5 == SetItem(e4, "PIPEWIRE_RUNTIME_DIR", <<"/", "tmp">>)
    IN  IF "PATH" \notin DOMAIN e5
        THEN [env |-> e5, fault |-> "KeyError"]
        ELSE LET e6 == SetItem(e5, "PATH", Join(path, <<"bin">>))
                 e7 == SetItem(e6, "WIREPLUMBER_CONFIG_DIR",
                               Join(Join(path, <<"share">>), <<"wireplumber">>))
                 e8 == SetItem(e7, "WIREPLUMBER_DATA_DIR",
                               Join(Join(path, <<"share">>), <<"wireplumber">>))
                 e9 == SetItem(e8, "WIREPLUMBER_MODULE_DIR",
                               Join(library_dir, <<"wireplumber-0.5">>))
             IN  [env |-> e9, fault |-> NoFault]

\* a variant that reads PATH before it assigns anything
ConfigurePipewirePathsAtomic(e, path) ==
    LET library_dir == Join(path, <<"lib64">>)
        share == Join(path, <<"share">>)
    IN  IF "PATH" \notin DOMAIN e
        THEN [env |-> e, fault |-> "KeyError"]
        ELSE [env |->
                SetItem(SetItem(SetItem(SetItem(SetItem(SetItem(SetItem(
                SetItem(SetItem(e,
                  "LD_LIBRARY_PATH", library_dir),
                  "PIPEWIRE_CONFIG_PREFIX", Join(share, <<"pipewire">>)),
                  "PIPEWIRE_MODULE_DIR", Join(library_dir, <<"pipewire-0.3">>)),
                  "SPA_PLUGIN_DIR", Join(library_dir, <<"spa-0.2">>)),
                  "PIPEWIRE_RUNTIME_DIR", <<"/", "tmp">>),
                  "PATH", e["PATH"] \o <<":">> \o Join(path, <<"bin">>)),
                  "WIREPLUMBER_CONFIG_DIR", Join(share, <<"wireplumber">>)),
                  "WIREPLUMBER_DATA_DIR", Join(share, <<"wireplumber">>)),
                  "WIREPLUMBER_MODULE_DIR",
                  Join(library_dir, <<"wireplumber-0.5">>)),
              fault |-> NoFault]

\* a variant that appends the binary directory only when PATH lacks it
ConfigurePipewirePathsOnce(e, path) ==
    LET r == ConfigurePipewirePathsAtomic(e, path)
        suffix == <<":">> \o Join(path, <<"bin">>)
        old == e["PATH"]
        has == /\ Len(old) >= Len(suffix)
               /\ SubSeq(old, Len(old) - Len(suffix) + 1, Len(old)) = suffix
    IN  IF "PATH" \in DOMAIN e /\ has
        THEN [r EXCEPT !.env = SetItem(r.env, "PATH", old)]
        ELSE r

\* _configure_pipewire_paths(path) applied to the dict e: the dict it leaves
\* and the exception it raises, if any.  The assignments happen in source
\* order, so a KeyError at the PATH line keeps the five before it.
ConfigurePipewirePaths(e, path) ==
    LET library_dir == Join(path, <<"lib64">>)
        pipewire_binary_dir == Join(path, <<"bin">>)
        pipewire_config_prefix == Join(Join(path, <<"share">>), <<"pipewire">>)
        pipewire_module_dir == Join(library_dir, <<"pipewire-0.3">>)
        spa_plugin_dir == Join(library_dir, <<"spa-0.2">>)
        wireplumber_config_dir ==
            Join(Join(path, <<"share">>), <<"wireplumber">>)
        wireplumber_data_dir ==
            Join(Join(path, <<"share">>), <<"wireplumber">>)
        wireplumber_module_dir == Join(library_dir, <<"wireplumber-0.5">>)
        e1 == SetItem(e, "LD_LIBRARY_PATH", library_dir)
        e2 == SetItem(e1, "PIPEWIRE_CONFIG_PREFIX", pipewire_config_prefix)
        e3 == SetItem(e2, "PIPEWIRE_MODULE_DIR", pipewire_module_dir)
        e4 == SetItem(e3, "SPA_PLUGIN_DIR", spa_plugin_dir)
        e5 == SetItem(e4, "PIPEWIRE_RUNTIME_DIR", <<"/", "tmp">>)
    IN  IF "PATH" \notin DOMAIN e5
        THEN [env |-> e5, fault |-> "KeyError"]
        ELSE LET e6 == SetItem(e5, "PATH",
                               e5["PATH"] \o <<":">> \o pipewire_binary_dir)
                 e7 == SetItem(e6, "WIREPLUMBER_CONFIG_DIR",
                               wireplumber_config_dir)
                 e8 == SetItem(e7, "WIREPLUMBER_DATA_DIR", wireplumber_data_dir)
                 e9 == SetItem(e8, "WIREPLUMBER_MODULE_DIR",
                               wireplumber_module_dir)
             IN  [env |-> e9, fault |-> NoFault]

\* ------------------------------------------------------------------ inputs

ScriptPaths ==
    { <<"/", "configure_pipewire.py">>,
      <<"/", "tools_webrtc", "/", "configure_pipewire.py">>,
      <<"/", "w", "/", "tools_webrtc", "/", "configure_pipewire.py">> }

Argvs == { <<>>, <<"cmd">>, <<"cmd", "arg">> }

Commands == {"pipewire", "wireplumber", "cmd"}

EightVars ==
    {"LD_LIBRARY_PATH", "PIPEWIRE_CONFIG_PREFIX", "PIPEWIRE_MODULE_DIR",
     "SPA_PLUGIN_DIR", "PIPEWIRE_RUNTIME_DIR", "WIREPLUMBER_CONFIG_DIR",
     "WIREPLUMBER_DATA_DIR", "WIREPLUMBER_MODULE_DIR"}

NineVars == EightVars \cup {"PATH"}

OldValue == <<"/", "old">>

\* the inherited PATH: absent (the empty set), empty, or one directory
OldPaths == { <<>>, <<"/", "usr", "/", "bin">> }

\* an inherited environment: HOME, the variables of preset at an old value,
\* and PATH when path holds a value
InheritedEnv(preset, path) ==
    [x \in {"HOME"} \cup preset \cup {k \in {"PATH"} : path # {}} |->
        IF x = "PATH" THEN CHOOSE v \in path : TRUE
        ELSE IF x = "HOME" THEN <<"/", "home">>
        ELSE OldValue]

PathChoices == {{}} \cup {{v} : v \in OldPaths}

InheritedEnvs(presets) ==
    {InheritedEnv(preset, path) : preset \in presets, path \in PathChoices}

\* the exit statuses of a process, and the signals that may kill it
ExitCodes == 0..255

Signals == {9, 15}

\* Popen.returncode of an ended child: its exit status, or -signal
ReturnCodes == ExitCodes \cup {0 - s : s \in Signals}

\* ---------------------------------------------------------------- launcher

Children == {"pipewire", "wireplumber", "fg"}

Helpers == {"pipewire", "wireplumber"}

\* the exit status the operating system keeps of sys.exit(n)
ExitStatus(n) == n % 256

\* an exception nothing catches: the interpreter ends with status 1
Raise(exc) ==
    /\ fault' = exc
    /\ faultAt' = pc
    /\ pc' = "aborted"
    /\ exitStatus' = <<1>>

\* subprocess.Popen([name]) has started child c
Started(c) ==
    /\ proc' = [proc EXCEPT ![c] = "running"]
    /\ snapshot' = SetItem(snapshot, c, environ)

\* Popen.terminate(): SIGTERM, unless the child is known to have ended
Terminate(c) ==
    sigterm' = [sigterm EXCEPT ![c] = IF proc[c] = "running" THEN @ + 1 ELSE @]

InitCommon ==
    /\ scriptPath \in ScriptPaths
    /\ environ0 = environ
    /\ calls = 0
    /\ events = <<>>
    /\ proc = [c \in Children |-> "notstarted"]
    /\ snapshot = <<>>
    /\ sigterm = [c \in Children |-> 0]
    /\ returncode = <<>>
    /\ return_value = <<>>
    /\ result = <<>>
    /\ fault = NoFault
    /\ faultAt = "none"
    /\ exitStatus = <<>>

Init ==
    /\ environ \in InheritedEnvs({{}, EightVars})
    /\ argv \in Argvs
    /\ isdir \in BOOLEAN
    /\ avail \in SUBSET Commands
    /\ pc = "start"
    /\ InitCommon

\* a variant that goes on when the directory is missing
MainCheckDirNoReturn ==
    /\ pc = "start"
    /\ events' = Append(events, "isdir")
    /\ pc' = "configure"
    /\ UNCHANGED <<scriptPath, argv, isdir, avail, environ, environ0, calls,
                   proc, snapshot, sigterm, returncode, return_value, result,
                   fault, faultAt, exitStatus>>

\* lines 51-55
MainCheckDir ==
    /\ pc = "start"
    /\ events' = Append(events, "isdir")
    /\ IF ~isdir
       THEN /\ result' = <<1>>
            /\ exitStatus' = <<ExitStatus(1)>>
            /\ pc' = "exited"
       ELSE /\ pc' = "configure"
            /\ UNCHANGED <<result, exitStatus>>
    /\ UNCHANGED <<scriptPath, argv, isdir, avail, environ, environ0, calls,
                   proc, snapshot, sigterm, returncode, return_value, fault,
                   faultAt>>

\* a variant that runs the command right after configuring
MainConfigureThenCall ==
    /\ pc = "configure"
    /\ events' = Append(events, "configure")
    /\ calls' = calls + 1
    /\ environ' = ConfigurePipewirePaths(environ, pipewire_dir).env
    /\ pc' = "call"
    /\ UNCHANGED <<scriptPath, argv, isdir, avail, environ0, proc, snapshot,
                   sigterm, returncode, return_value, result, fault, faultAt,
                   exitStatus>>

\* line 57
MainConfigure ==
    /\ pc = "configure"
    /\ events' = Append(events, "configure")
    /\ calls' = calls + 1
    /\ LET r == ConfigurePipewirePaths(environ, pipewire_dir)
       IN  /\ environ' = r.env
           /\ IF r.fault # NoFault
              THEN Raise(r.fault)
              ELSE /\ pc' = "spawn_pipewire"
                   /\ UNCHANGED <<fault, faultAt, exitStatus>>
    /\ UNCHANGED <<scriptPath, argv, isdir, avail, environ0, proc, snapshot,
                   sigterm, returncode, return_value, result>>

\* line 59
SpawnPipewire ==
    /\ pc = "spawn_pipewire"
    /\ IF "pipewire" \in avail
       THEN /\ Started("pipewire")
            /\ events' = Append(events, "spawn_pipewire")
            /\ pc' = "spawn_wireplumber"
            /\ UNCHANGED <<fault, faultAt, exitStatus>>
       ELSE /\ Raise("FileNotFoundError")
            /\ UNCHANGED <<proc, snapshot, events>>
    /\ UNCHANGED <<scriptPath, argv, isdir, avail, environ, environ0, calls,
                   sigterm, returncode, return_value, result>>

\* a variant that stops pipewire when wireplumber cannot start
SpawnWireplumberCleanup ==
    /\ pc = "spawn_wireplumber"
    /\ IF "wireplumber" \in avail
       THEN /\ Started("wireplumber")
            /\ events' = Append(events, "spawn_wireplumber")
            /\ pc' = "call"
            /\ UNCHANGED <<fault, faultAt, exitStatus, sigterm>>
       ELSE /\ Raise("FileNotFoundError")
            /\ Terminate("pipewire")
            /\ events' = Append(events, "terminate_pipewire")
            /\ UNCHANGED <<proc, snapshot>>
    /\ UNCHANGED <<scriptPath, argv, isdir, avail, environ, environ0, calls,
                   returncode, return_value, result>>

\* line 60
SpawnWireplumber ==
    /\ pc = "spawn_wireplumber"
    /\ IF "wireplumber" \in avail
       THEN /\ Started("wireplumber")
            /\ events' = Append(events, "spawn_wireplumber")
            /\ pc' = "call"
            /\ UNCHANGED <<fault, faultAt, exitStatus>>
       ELSE /\ Raise("FileNotFoundError")
            /\ UNCHANGED <<proc, snapshot, events>>
    /\ UNCHANGED <<scriptPath, argv, isdir, avail, environ, environ0, calls,
                   sigterm, returncode, return_value, result>>

\* a variant that stops the helpers when the command cannot start
CallForegroundFinally ==
    /\ pc = "call"
    /\ IF argv = <<>>
       THEN /\ Raise("IndexError")
            /\ sigterm' = [c \in Children |->
                             IF c \in Helpers /\ proc[c] = "running"
                             THEN sigterm[c] + 1 ELSE sigterm[c]]
            /\ events' = events \o <<"terminate_wireplumber",
                                     "terminate_pipewire">>
            /\ UNCHANGED <<proc, snapshot>>
       ELSE IF Head(argv) \notin avail
       THEN /\ Raise("FileNotFoundError")
            /\ sigterm' = [c \in Children |->
                             IF c \in Helpers /\ proc[c] = "running"
                             THEN sigterm[c] + 1 ELSE sigterm[c]]
            /\ events' = events \o <<"terminate_wireplumber",
                                     "terminate_pipewire">>
            /\ UNCHANGED <<proc, snapshot>>
       ELSE /\ Started("fg")
            /\ events' = Append(events, "spawn_fg")
            /\ pc' = "wait"
            /\ UNCHANGED <<fault, faultAt, exitStatus, sigterm>>
    /\ UNCHANGED <<scriptPath, argv, isdir, avail, environ, environ0, calls,
                   returncode, return_value, result>>

\* line 62, the start of subprocess.call(sys.argv[1:])
CallForeground ==
    /\ pc = "call"
    /\ IF argv = <<>>
       THEN /\ Raise("IndexError")
            /\ UNCHANGED <<proc, snapshot, events>>
       ELSE IF Head(argv) \notin avail
       THEN /\ Raise("FileNotFoundError")
            /\ UNCHANGED <<proc, snapshot, events>>
       ELSE /\ Started("fg")
            /\ events' = Append(events, "spawn_fg")
            /\ pc' = "wait"
            /\ UNCHANGED <<fault, faultAt, exitStatus>>
    /\ UNCHANGED <<scriptPath, argv, isdir, avail, environ, environ0, calls,
                   sigterm, returncode, return_value, result>>

\* the foreground command ends, by exit(rc) or by a signal
ForegroundExits ==
    /\ proc["fg"] = "running"
    /\ \E rc \in ReturnCodes : returncode' = <<rc>>
    /\ proc' = [proc EXCEPT !["fg"] = "exited"]
    /\ UNCHANGED <<scriptPath, argv, isdir, avail, environ, environ0, calls,
                   pc, events, snapshot, sigterm, return_value, result, fault,
                   faultAt, exitStatus>>

\* line 62, subprocess.call returns once the command has ended
MainWait ==
    /\ pc = "wait"
    /\ proc["fg"] = "exited"
    /\ return_value' = returncode
    /\ events' = Append(events, "wait")
    /\ pc' = "terminate_wireplumber"
    /\ UNCHANGED <<scriptPath, argv, isdir, avail, environ, environ0, calls,
                   proc, snapshot, sigterm, returncode, result, fault, faultAt,
                   exitStatus>>

\* a variant that terminates pipewire at line 64
TerminatePipewireFirst ==
    /\ pc = "terminate_wireplumber"
    /\ Terminate("pipewire")
    /\ events' = Append(events, "terminate_pipewire")
    /\ pc' = "terminate_pipewire"
    /\ UNCHANGED <<scriptPath, argv, isdir, avail, environ, environ0, calls,
                   proc, snapshot, returncode, return_value, result, fault,
                   faultAt, exitStatus>>

\* line 64
TerminateWireplumber ==
    /\ pc = "terminate_wireplumber"
    /\ Terminate("wireplumber")
    /\ events' = Append(events, "terminate_wireplumber")
    /\ pc' = "terminate_pipewire"
    /\ UNCHANGED <<scriptPath, argv, isdir, avail, environ, environ0, calls,
                   proc, snapshot, returncode, return_value, result, fault,
                   faultAt, exitStatus>>

\* line 65
TerminatePipewire ==
    /\ pc = "terminate_pipewire"
    /\ Terminate("pipewire")
    /\ events' = Append(events, "terminate_pipewire")
    /\ pc' = "return"
    /\ UNCHANGED <<scriptPath, argv, isdir, avail, environ, environ0, calls,
                   proc, snapshot, returncode, return_value, result, fault,
                   faultAt, exitStatus>>

\* a variant that returns 0 whatever the command returned
MainReturnZero ==
    /\ pc = "return"
    /\ result' = <<0>>
    /\ exitStatus' = <<0>>
    /\ pc' = "exited"
    /\ UNCHANGED <<scriptPath, argv, isdir, avail, environ, environ0, calls,
                   events, proc, snapshot, sigterm, returncode, return_value,
                   fault, faultAt>>

\* a variant that waits for both helpers before it returns
MainReturnWaits ==
    /\ pc = "return"
    /\ \A h \in Helpers : proc[h] = "exited"
    /\ result' = return_value
    /\ exitStatus' = <<ExitStatus(return_value[1])>>
    /\ pc' = "exited"
    /\ UNCHANGED <<scriptPath, argv, isdir, avail, environ, environ0, calls,
                   events, proc, snapshot, sigterm, returncode, return_value,
                   fault, faultAt>>

\* lines 67 and 71
MainReturn ==
    /\ pc = "return"
    /\ result' = return_value
    /\ exitStatus' = <<ExitStatus(return_value[1])>>
    /\ pc' = "exited"
    /\ UNCHANGED <<scriptPath, argv, isdir, avail, environ, environ0, calls,
                   events, proc, snapshot, sigterm, returncode, return_value,
                   fault, faultAt>>

\* a helper ends, of its own accord or because it honours a SIGTERM
HelperExits(h) ==
    /\ proc[h] = "running"
    /\ proc' = [proc EXCEPT ![h] = "exited"]
    /\ UNCHANGED <<scriptPath, argv, isdir, avail, environ, environ0, calls,
                   pc, events, snapshot, sigterm, returncode, return_value,
                   result, fault, faultAt, exitStatus>>

Next ==
    \/ MainCheckDir
    \/ MainConfigure
    \/ SpawnPipewire
    \/ SpawnWireplumber
    \/ CallForeground
    \/ ForegroundExits
    \/ MainWait
    \/ TerminateWireplumber
    \/ TerminatePipewire
    \/ MainReturn
    \/ \E h \in Helpers : HelperExits(h)

Spec == Init /\ [][Next]_vars

\* --------------------------------------- _configure_pipewire_paths by itself

InitConfigure ==
    /\ environ \in InheritedEnvs({{}, EightVars} \cup {{v} : v \in EightVars})
    /\ argv = <<>>
    /\ isdir = TRUE
    /\ avail = {}
    /\ pc = "configure_only"
    /\ InitCommon

\* a caller calls _configure_pipewire_paths(pipewire_dir) once more
ConfigureCall ==
    /\ pc = "configure_only"
    /\ calls < MaxCalls
    /\ calls' = calls + 1
    /\ events' = Append(events, "configure")
    /\ LET r == ConfigurePipewirePaths(environ, pipewire_dir)
       IN  /\ environ' = r.env
           /\ fault' = r.fault
           /\ faultAt' = IF r.fault = NoFault THEN faultAt ELSE "configure"
    /\ UNCHANGED <<scriptPath, argv, isdir, avail, environ0, pc, proc,
                   snapshot, sigterm, returncode, return_value, result,
                   exitStatus>>

NextConfigure == ConfigureCall

SpecConfigure == InitConfigure /\ [][NextConfigure]_vars

\* ------------------------------------------------------------------ claims

IsPrefix(s, t) == Len(s) <= Len(t) /\ s = SubSeq(t, 1, Len(s))

RECURSIVE Filter(_, _)
Filter(s, keep) ==
    IF s = <<>> THEN <<>>
    ELSE IF Head(s) \in keep THEN <<Head(s)>> \o Filter(Tail(s), keep)
    ELSE Filter(Tail(s), keep)

RECURSIVE Repeat(_, _)
Repeat(k, s) == IF k = 0 THEN <<>> ELSE s \o Repeat(k - 1, s)

\* the terminate requests issued so far, and the children started so far
TermEvents == Filter(events, {"terminate_wireplumber", "terminate_pipewire"})

SpawnEvents == Filter(events, {"spawn_pipewire", "spawn_wireplumber", "spawn_fg"})

FullRun ==
    <<"isdir", "configure", "spawn_pipewire", "spawn_wireplumber", "spawn_fg",
      "wait", "terminate_wireplumber", "terminate_pipewire">>

NoChildStarted ==
    /\ \A c \in Children : proc[c] = "notstarted" /\ sigterm[c] = 0
    /\ DOMAIN snapshot = {}
    /\ SpawnEvents = <<>>

\* the table of the nine variables, for root R and inherited PATH oldPath
TableValue(v, R, oldPath) ==
    CASE v = "LD_LIBRARY_PATH" -> R \o <<"/", "lib64">>
      [] v = "PIPEWIRE_CONFIG_PREFIX" -> R \o <<"/", "share", "/", "pipewire">>
      [] v = "PIPEWIRE_MODULE_DIR" -> R \o <<"/", "lib64", "/", "pipewire-0.3">>
      [] v = "SPA_PLUGIN_DIR" -> R \o <<"/", "lib64", "/", "spa-0.2">>
      [] v = "PIPEWIRE_RUNTIME_DIR" -> <<"/", "tmp">>
      [] v = "PATH" -> oldPath \o <<":">> \o R \o <<"/", "bin">>
      [] v = "WIREPLUMBER_CONFIG_DIR" ->
            R \o <<"/", "share", "/", "wireplumber">>
      [] v = "WIREPLUMBER_DATA_DIR" ->
            R \o <<"/", "share", "/", "wireplumber">>
      [] v = "WIREPLUMBER_MODULE_DIR" ->
            R \o <<"/", "lib64", "/", "wireplumber-0.5">>

\* the inherited environment overlaid with the table
Overlaid(e0, R) ==
    [x \in DOMAIN e0 \cup NineVars |->
        IF x \in NineVars THEN TableValue(x, R, e0["PATH"]) ELSE e0[x]]

\* C1: when the installation root is not a directory, main() returns 1, the
\* launcher's exit status is 1, and no child process is ever started: the
\* launcher does nothing after the directory check.
C1_MissingRootReturnsOne ==
    (~isdir /\ pc # "start") =>
        /\ pc = "exited"
        /\ result = <<1>>
        /\ exitStatus = <<1>>
        /\ fault = NoFault
        /\ events = <<"isdir">>
        /\ calls = 0
        /\ environ = environ0
        /\ NoChildStarted

C1_Witness == ~isdir /\ pc = "exited" /\ avail = Commands /\ argv # <<>>

\* C2: when the root exists, both helpers started and the foreground command
\* ended with exit code N in 0..255, the launcher, once it has exited, has
\* returned N and its exit status is N.
C2_ExitCodePropagated ==
    (pc = "exited" /\ isdir /\ returncode # <<>> /\ returncode[1] \in ExitCodes)
        => /\ result = returncode
           /\ exitStatus = returncode
           /\ TermEvents = <<"terminate_wireplumber", "terminate_pipewire">>

C2_Witness ==
    /\ pc = "exited"
    /\ returncode = <<255>>
    /\ exitStatus = <<255>>
    /\ \A h \in Helpers : proc[h] # "notstarted"

\* C3: terminate requests follow the end of the foreground command:
\* wireplumber first, pipewire second, each at most once and, once the
\* launcher has returned from a run of the command, each exactly once.  While
\* the command runs the launcher waits: no request is issued and it has not
\* exited.  Once the command has ended the launcher's next step is enabled.
C3_TerminateAfterForeground ==
    /\ IsPrefix(TermEvents, <<"terminate_wireplumber", "terminate_pipewire">>)
    /\ TermEvents # <<>> => proc["fg"] = "exited" /\ return_value = returncode
    /\ \A c \in Children : sigterm[c] <= 1
    /\ sigterm["fg"] = 0
    /\ proc["fg"] = "running" =>
          /\ TermEvents = <<>>
          /\ pc = "wait"
          /\ exitStatus = <<>>
          /\ \A c \in Children : sigterm[c] = 0
          /\ ~ ENABLED (MainWait \/ TerminateWireplumber \/ TerminatePipewire
                        \/ MainReturn)
    /\ proc["fg"] = "exited" =>
          \/ pc = "exited"
             /\ TermEvents = <<"terminate_wireplumber", "terminate_pipewire">>
          \/ pc = "wait" /\ ENABLED MainWait
          \/ pc = "terminate_wireplumber" /\ ENABLED TerminateWireplumber
          \/ pc = "terminate_pipewire" /\ ENABLED TerminatePipewire
          \/ pc = "return" /\ ENABLED MainReturn

C3_Witness ==
    /\ pc = "exited"
    /\ returncode = <<3>>
    /\ TermEvents = <<"terminate_wireplumber", "terminate_pipewire">>
    /\ sigterm["wireplumber"] = 1
    /\ sigterm["pipewire"] = 1

\* C4: one call of _configure_pipewire_paths(R) on an environment that holds
\* PATH raises nothing and leaves exactly the inherited environment overlaid
\* with the table of the nine variables: same other variables, same values.
C4_NineVariablesSet ==
    (calls = 1 /\ "PATH" \in DOMAIN environ0) =>
        /\ fault = NoFault
        /\ environ = Overlaid(environ0, pipewire_dir)
        /\ DOMAIN environ = DOMAIN environ0 \cup NineVars
        /\ \A v \in DOMAIN environ0 \ NineVars : environ[v] = environ0[v]

C4_Witness ==
    /\ calls = 1
    /\ "PATH" \in DOMAIN environ0
    /\ "WIREPLUMBER_DATA_DIR" \in DOMAIN environ0
    /\ environ0["PATH"] # <<>>
    /\ environ["LD_LIBRARY_PATH"] =
          <<"/", "w", "/", "third_party", "/", "pipewire", "/", "linux-amd64",
            "/", "lib64">>
    /\ environ["HOME"] = <<"/", "home">>

\* C5: after k >= 1 calls with the same root the eight variables other than
\* PATH hold the values of the table, as after one call, and PATH is the
\* inherited PATH followed by k copies of ':' + R/bin.
C5_PathAppendedPerCall ==
    (calls >= 1 /\ "PATH" \in DOMAIN environ0) =>
        /\ \A v \in EightVars :
              environ[v] = TableValue(v, pipewire_dir, environ0["PATH"])
        /\ environ["PATH"] =
              environ0["PATH"]
                 \o Repeat(calls, <<":">> \o pipewire_dir \o <<"/", "bin">>)
        /\ calls >= 2 =>
              environ["PATH"] # TableValue("PATH", pipewire_dir, environ0["PATH"])

C5_Witness ==
    /\ calls = 2
    /\ "PATH" \in DOMAIN environ0
    /\ environ0["PATH"] = <<"/", "usr", "/", "bin">>
    /\ environ["PATH"] =
          <<"/", "usr", "/", "bin",
            ":", "/", "third_party", "/", "pipewire", "/", "linux-amd64",
                 "/", "bin",
            ":", "/", "third_party", "/", "pipewire", "/", "linux-amd64",
                 "/", "bin">>

\* C6: the launcher's events are a prefix of the fixed order (directory
\* check, configuration, pipewire, wireplumber, command, ...), configuration
\* happens at most once, every started child was given the fully configured
\* environment, and the command is started only after both helpers.
C6_FixedOrder ==
    /\ IsPrefix(events, FullRun)
    /\ calls <= 1
    /\ calls = Len(Filter(events, {"configure"}))
    /\ \A c \in Children : proc[c] # "notstarted" <=> c \in DOMAIN snapshot
    /\ \A c \in DOMAIN snapshot :
          /\ calls = 1
          /\ "PATH" \in DOMAIN environ0
          /\ snapshot[c] = Overlaid(environ0, pipewire_dir)
    /\ proc["fg"] # "notstarted" =>
          \A h \in Helpers : proc[h] # "notstarted"
    /\ proc["wireplumber"] # "notstarted" => proc["pipewire"] # "notstarted"

C6_Witness ==
    /\ proc["fg"] = "running"
    /\ DOMAIN snapshot = Children
    /\ "LD_LIBRARY_PATH" \in DOMAIN environ0
    /\ events = SubSeq(FullRun, 1, 5)

\* C7: a helper that cannot be started ends the launcher with no cleanup.
\* If pipewire cannot start, no child was started.  If wireplumber cannot
\* start, pipewire was started, the command was not, and pipewire is never
\* asked to terminate: no terminate request, no SIGTERM.
C7_HelperStartFailureLeaks ==
    /\ faultAt = "spawn_pipewire" =>
          /\ fault = "FileNotFoundError"
          /\ pc = "aborted"
          /\ exitStatus = <<1>>
          /\ NoChildStarted
          /\ TermEvents = <<>>
    /\ faultAt = "spawn_wireplumber" =>
          /\ fault = "FileNotFoundError"
          /\ pc = "aborted"
          /\ exitStatus = <<1>>
          /\ proc["pipewire"] # "notstarted"
          /\ proc["wireplumber"] = "notstarted"
          /\ proc["fg"] = "notstarted"
          /\ SpawnEvents = <<"spawn_pipewire">>
          /\ TermEvents = <<>>
          /\ \A c \in Children : sigterm[c] = 0

C7_Witness ==
    /\ faultAt = "spawn_wireplumber"
    /\ pc = "aborted"
    /\ proc["pipewire"] = "running"

\* C8: the launcher's return after the two terminate requests waits for
\* nothing: it is enabled whatever the helpers' states are, and a helper
\* that a request found running got exactly one SIGTERM and nothing more.
C8_FireAndForget ==
    /\ pc = "return" => ENABLED MainReturn
    /\ pc \in {"return", "exited"} /\ returncode # <<>> =>
          /\ TermEvents = <<"terminate_wireplumber", "terminate_pipewire">>
          /\ \A h \in Helpers : proc[h] = "running" => sigterm[h] = 1

C8_Witness ==
    /\ pc = "exited"
    /\ exitStatus = returncode
    /\ proc["pipewire"] = "running"
    /\ proc["wireplumber"] = "running"
    /\ sigterm["pipewire"] = 1
    /\ sigterm["wireplumber"] = 1

\* C9: when the command cannot be launched (no command given, or not
\* startable) after both helpers started, the launcher aborts and neither
\* helper is asked to terminate; terminate requests exist only when the
\* command was started and its status was returned to main().
C9_ForegroundLaunchFailureLeaks ==
    /\ faultAt = "call" =>
          /\ fault = IF argv = <<>> THEN "IndexError" ELSE "FileNotFoundError"
          /\ argv = <<>> \/ Head(argv) \notin avail
          /\ pc = "aborted"
          /\ exitStatus = <<1>>
          /\ \A h \in Helpers : proc[h] # "notstarted"
          /\ proc["fg"] = "notstarted"
          /\ TermEvents = <<>>
          /\ \A c \in Children : sigterm[c] = 0
    /\ (pc = "call" /\ (argv = <<>> \/ Head(argv) \notin avail)) =>
          ~ ENABLED (TerminateWireplumber \/ TerminatePipewire)
    /\ TermEvents # <<>> =>
          /\ proc["fg"] = "exited"
          /\ return_value # <<>>
          /\ fault = NoFault

C9_Witness ==
    /\ faultAt = "call"
    /\ argv = <<>>
    /\ fault = "IndexError"
    /\ proc["pipewire"] = "running"
    /\ proc["wireplumber"] = "running"

\* C10: when the inherited environment has no PATH, the call made by main()
\* raises KeyError at the PATH assignment: the five variables before it hold
\* their new values, PATH is still absent, the three WIREPLUMBER_* variables
\* and every other variable are as inherited (not assigned), and main() ends
\* with the fault without starting any child.
C10_ConfigureNotAtomic ==
    (calls >= 1 /\ "PATH" \notin DOMAIN environ0) =>
        /\ fault = "KeyError"
        /\ faultAt = "configure"
        /\ pc = "aborted"
        /\ exitStatus = <<1>>
        /\ \A v \in {"LD_LIBRARY_PATH", "PIPEWIRE_CONFIG_PREFIX",
                     "PIPEWIRE_MODULE_DIR", "SPA_PLUGIN_DIR",
                     "PIPEWIRE_RUNTIME_DIR"} :
              /\ v \in DOMAIN environ
              /\ environ[v] = TableValue(v, pipewire_dir, <<>>)
        /\ "PATH" \notin DOMAIN environ
        /\ \A v \in {"WIREPLUMBER_CONFIG_DIR", "WIREPLUMBER_DATA_DIR",
                     "WIREPLUMBER_MODULE_DIR", "HOME"} :
              /\ v \in DOMAIN environ <=> v \in DOMAIN environ0
              /\ v \in DOMAIN environ0 => environ[v] = environ0[v]
        /\ NoChildStarted
        /\ TermEvents = <<>>

C10_Witness ==
    /\ calls = 1
    /\ fault = "KeyError"
    /\ pc = "aborted"
    /\ DOMAIN environ0 = {"HOME"}
    /\ DOMAIN environ = {"HOME", "LD_LIBRARY_PATH", "PIPEWIRE_CONFIG_PREFIX",
                         "PIPEWIRE_MODULE_DIR", "SPA_PLUGIN_DIR",
                         "PIPEWIRE_RUNTIME_DIR"}
    /\ avail = Commands

====
